---- MODULE Spec2Model ----
(***************************************************************************)
(* Model of web/src/model-details-page.tsx: the ModelDetailsPage React     *)
(* component.  The component reads the route parameter `name`, keeps the   *)
(* list allEvalSettings in view state, issues axios.get(url) from an       *)
(* effect keyed on [url], stores response.data in the fulfilment handler   *)
(* and hands the held value to a DataGrid with a fixed page size.          *)
(***************************************************************************)
EXTENDS Naturals, Sequences, FiniteSets, TLC

\* ------------------------------------------------------------------ bounds
\* route parameters the router may supply
Names == {"resnet50", "yolo"}
\* most requests issued in one run
MaxRequests == 3
\* longest response array
MaxRows == 6
\* the backend numbers its records from Start + 1, Start \in 0..MaxStart
MaxStart == 1

\* ------------------------------------------------------- JavaScript values
\* A JavaScript value is a record [t, v]: t is its type, v its elements
\* (the records of an array, the characters of a string).
JsArray(s) == [t |-> "array", v |-> s]
JsNull == [t |-> "null", v |-> <<>>]
JsString(s) == [t |-> "string", v |-> s]
\* no value: nothing has been answered yet (model bookkeeping only)
NoValue == [t |-> "none", v |-> <<>>]

\* variant: the guard tests the length, so the empty array counts as falsy
TruthyNonEmpty(x) ==
  CASE x.t = "array" -> Len(x.v) > 0
    [] x.t = "string" -> Len(x.v) > 0
    [] OTHER -> FALSE

\* if (!allEvalSettings): null and the empty string are falsy, every array
\* (the empty one included) is truthy
Truthy(x) ==
  CASE x.t = "array" -> TRUE
    [] x.t = "string" -> Len(x.v) > 0
    [] OTHER -> FALSE

\* one EvaluationSetting record, as the backend serialises it
Row(i) ==
  [id |-> i,
   dataset_name |-> "coco",
   model_pred_task_type |-> "detection",
   dataset_gt_task_type |-> "detection",
   min_area |-> 0,
   max_area |-> 1000 + i]

RowsFrom(start, n) == [i \in 1..n |-> Row(start + i)]

\* the response bodies the backend may send with a 2xx status
Bodies ==
  {JsArray(RowsFrom(s, n)) : s \in 0..MaxStart, n \in 0..MaxRows}
    \cup {JsNull, JsString(<<>>)}

\* ------------------------------------------------------------- the module
\* process.env.REACT_APP_BACKEND_URL
BackendUrl == "http://localhost:8000"

\* const url = `${process.env.REACT_APP_BACKEND_URL}/models/${name}/evaluation-settings`
Url(n) == BackendUrl \o "/models/" \o n \o "/evaluation-settings"

\* variant: the link is built from another field of the row
renderCellByDataset(row) ==
  [href |-> "evaluation-settings/" \o row.dataset_name, text |-> "view metrics"]

\* columns[5].renderCell: <Link href={`evaluation-settings/${params.row.id}`}>view metrics</Link>
renderCell(row) ==
  [href |-> "evaluation-settings/" \o ToString(row.id), text |-> "view metrics"]

\* the five columns with a field: the cell shows row[field]
renderRow(row) ==
  [cells |-> <<row.dataset_name, row.model_pred_task_type,
               row.dataset_gt_task_type, row.min_area, row.max_area>>,
   link |-> renderCell(row)]

\* variant: a larger page
pageSizeDoubled == 5 + 5

\* paginationModel: { pageSize: 5 }
pageSize == 5
\* pageSizeOptions={[5]}
pageSizeOptions == {5}

\* what a render returns: null when the held value is falsy, otherwise the
\* wrapper with the heading {name} and the grid over rows={allEvalSettings}
NullView == [rendered |-> FALSE, heading |-> "", rows |-> NoValue, grid |-> <<>>]

Render(n, held) ==
  IF ~Truthy(held) THEN NullView
  ELSE [rendered |-> TRUE,
        heading |-> n,
        rows |-> held,
        grid |-> IF held.t = "array"
                 THEN [i \in 1..Len(held.v) |-> renderRow(held.v[i])]
                 ELSE <<>>]

\* --------------------------------------------------------------- the state
VARIABLES
  mounted,          \* the component has rendered once
  name,             \* useParams().name of the last render
  allEvalSettings,  \* the useState value
  deps,             \* the effect's dependency array of the last commit
  inflight,         \* axios.get promises neither fulfilled nor rejected
  view,             \* what the last render returned
  issued,           \* history: number of GET requests issued
  changes,          \* history: number of renders with a new identifier
  answered,         \* history: number of promises settled
  lastSuccess,      \* history: the body of the last fulfilled promise
  lastFor,          \* history: per identifier, the body of the last
                    \*   fulfilled request issued for it
  act               \* history: the last step taken

vars == <<mounted, name, allEvalSettings, deps, inflight, view,
          issued, changes, answered, lastSuccess, lastFor, act>>

\* variant: useState() without an initial value
InitialStateMissing == JsNull

\* useState<EvaluationSetting[]>([])
InitialState == JsArray(<<>>)

Init ==
  /\ mounted = FALSE
  /\ name = ""
  /\ allEvalSettings = InitialState
  /\ deps = <<>>
  /\ inflight = {}
  /\ view = NullView
  /\ issued = 0
  /\ changes = 0
  /\ answered = 0
  /\ lastSuccess = NoValue
  /\ lastFor = [n \in Names |-> NoValue]
  /\ act = "init"

\* variant: the effect has no dependency array and runs after every render
DepsAlwaysChanged(prev, next) == TRUE

\* React runs an effect on mount and whenever a dependency differs from the
\* one of the previous commit
DepsChanged(prev, next) == prev = <<>> \/ prev # next

\* One render of the component followed by its effect: the render computes
\* name, url and the returned element, the effect issues axios.get(url) when
\* [url] changed.  pending is the set of promises still open at that time.
RenderAndEffect(n, held, pending) ==
  LET url == Url(n) IN
  /\ name' = n
  /\ view' = Render(n, held)
  /\ IF DepsChanged(deps, <<url>>)
     THEN /\ inflight' = pending \cup {[id |-> issued + 1, url |-> url, name |-> n]}
          /\ issued' = issued + 1
          /\ deps' = <<url>>
     ELSE /\ inflight' = pending
          /\ UNCHANGED <<issued, deps>>

\* first render
Mount(n) ==
  /\ ~mounted
  /\ mounted' = TRUE
  /\ RenderAndEffect(n, allEvalSettings, inflight)
  /\ act' = "mount"
  /\ UNCHANGED <<allEvalSettings, changes, answered, lastSuccess, lastFor>>

\* variant: the list is cleared when the identifier changes
NavigateClears(n) ==
  /\ mounted
  /\ n # name
  /\ issued < MaxRequests
  /\ allEvalSettings' = JsArray(<<>>)
  /\ RenderAndEffect(n, JsArray(<<>>), inflight)
  /\ changes' = changes + 1
  /\ act' = "navigate"
  /\ UNCHANGED <<mounted, answered, lastSuccess, lastFor>>

\* the router supplies another identifier: the component renders again
Navigate(n) ==
  /\ mounted
  /\ n # name
  /\ issued < MaxRequests
  /\ RenderAndEffect(n, allEvalSettings, inflight)
  /\ changes' = changes + 1
  /\ act' = "navigate"
  /\ UNCHANGED <<mounted, allEvalSettings, answered, lastSuccess, lastFor>>

\* a render with the identifier unchanged (a parent re-rendered)
Rerender ==
  /\ mounted
  /\ RenderAndEffect(name, allEvalSettings, inflight)
  /\ act' = "rerender"
  /\ UNCHANGED <<mounted, allEvalSettings, changes, answered, lastSuccess, lastFor>>

\* variant: a response is applied only when it answers the current url
FulfilIfCurrent(r, body) ==
  /\ r \in inflight
  /\ IF r.url = Url(name)
     THEN /\ allEvalSettings' = body
          /\ RenderAndEffect(name, body, inflight \ {r})
     ELSE /\ inflight' = inflight \ {r}
          /\ UNCHANGED <<name, allEvalSettings, deps, view, issued>>
  /\ answered' = answered + 1
  /\ lastSuccess' = body
  /\ lastFor' = [lastFor EXCEPT ![r.name] = body]
  /\ act' = "fulfil"
  /\ UNCHANGED <<mounted, changes>>

\* variant: the response's records are appended to the held list
FulfilAppends(r, body) ==
  LET merged == IF allEvalSettings.t = "array" /\ body.t = "array"
                THEN JsArray(allEvalSettings.v \o body.v)
                ELSE body
  IN
  /\ r \in inflight
  /\ allEvalSettings' = merged
  /\ RenderAndEffect(name, merged, inflight \ {r})
  /\ answered' = answered + 1
  /\ lastSuccess' = body
  /\ lastFor' = [lastFor EXCEPT ![r.name] = body]
  /\ act' = "fulfil"
  /\ UNCHANGED <<mounted, changes>>

\* .then((response) => { setAllEvalSettings(response.data); }) and the
\* render the state change causes
Fulfil(r, body) ==
  /\ r \in inflight
  /\ allEvalSettings' = body
  /\ RenderAndEffect(name, body, inflight \ {r})
  /\ answered' = answered + 1
  /\ lastSuccess' = body
  /\ lastFor' = [lastFor EXCEPT ![r.name] = body]
  /\ act' = "fulfil"
  /\ UNCHANGED <<mounted, changes>>

\* variant: a .catch handler resets the list
RejectClears(r) ==
  /\ r \in inflight
  /\ allEvalSettings' = JsArray(<<>>)
  /\ RenderAndEffect(name, JsArray(<<>>), inflight \ {r})
  /\ answered' = answered + 1
  /\ act' = "reject"
  /\ UNCHANGED <<mounted, changes, lastSuccess, lastFor>>

\* the promise rejects: there is no .catch, nothing runs
Reject(r) ==
  /\ r \in inflight
  /\ inflight' = inflight \ {r}
  /\ answered' = answered + 1
  /\ act' = "reject"
  /\ UNCHANGED <<mounted, name, allEvalSettings, deps, view, issued, changes,
                 lastSuccess, lastFor>>

Next ==
  \/ \E n \in Names : Mount(n)
  \/ \E n \in Names : Navigate(n)
  \/ Rerender
  \/ \E r \in inflight, body \in Bodies : Fulfil(r, body)
  \/ \E r \in inflight : Reject(r)

Spec == Init /\ [][Next]_vars

TypeOK ==
  /\ mounted \in BOOLEAN
  /\ issued \in 0..MaxRequests
  /\ allEvalSettings \in Bodies

\* ------------------------------------------------- the grid's pagination
Min(a, b) == IF a < b THEN a ELSE b

\* number of pages the grid offers for n rows
PageCount(n) == (n + pageSize - 1) \div pageSize

\* the rows the grid shows on page p (pages are numbered from 0)
PageRows(rows, p) ==
  SubSeq(rows, p * pageSize + 1, Min((p + 1) * pageSize, Len(rows)))

\* ------------------------------------------------------------ properties
EmptyList == JsArray(<<>>)

RECURSIVE Decimal(_)
Decimal(n) ==
  LET digit == <<"0", "1", "2", "3", "4", "5", "6", "7", "8", "9">> IN
  IF n < 10 THEN digit[n + 1] ELSE Decimal(n \div 10) \o digit[(n % 10) + 1]

RECURSIVE Concat(_, _, _)
\* pages p .. last of rows, one after the other
Concat(rows, p, last) ==
  IF p > last THEN <<>> ELSE PageRows(rows, p) \o Concat(rows, p + 1, last)

\* C1: the held list is always either empty or exactly the response body of
\* the most recent successful fetch issued for the identifier now displayed.
HeldListIsForCurrentIdentifier ==
  mounted => (allEvalSettings = EmptyList \/ allEvalSettings = lastFor[name])

\* C2: one GET is issued on the initial render and one per change of the
\* identifier, each to {backend}/models/{identifier}/evaluation-settings for
\* the identifier current at issue time; other renders issue none, so the
\* number of requests is 1 plus the number of identifier changes.
OneRequestPerIdentifierChange ==
  /\ ~mounted => issued = 0
  /\ mounted => issued = 1 + changes
  /\ mounted => deps = <<BackendUrl \o "/models/" \o name \o "/evaluation-settings">>
  /\ \A r \in inflight :
       r.url = BackendUrl \o "/models/" \o r.name \o "/evaluation-settings"
  /\ act \in {"mount", "navigate"} =>
       \E r \in inflight :
         /\ r.id = issued
         /\ r.url = BackendUrl \o "/models/" \o name \o "/evaluation-settings"

RequestsFollowIdentifierChanges ==
  /\ changes = 2
  /\ issued = 3
  /\ answered >= 1
  /\ act = "rerender"

\* C3: no request in flight is cancelled, responses are applied in whatever
\* order they arrive, and once none is in flight the held list is the body
\* of the request that was fulfilled last, whatever identifier it was for.
LastFulfilledWins ==
  /\ Cardinality(inflight) = issued - answered
  /\ (inflight = {} /\ lastSuccess # NoValue) => allEvalSettings = lastSuccess

StaleResponseWon ==
  /\ inflight = {}
  /\ issued >= 2
  /\ lastFor[name] # NoValue
  /\ lastSuccess # lastFor[name]
  /\ allEvalSettings = lastSuccess

\* C4: after a response with an array of n records is applied, the rows
\* handed to the grid are exactly those records in their order, n of them,
\* with nothing of the previous list left; an empty array gives zero rows.
ResponseReplacesList ==
  (act = "fulfil" /\ lastSuccess.t = "array") =>
    /\ allEvalSettings = lastSuccess
    /\ view.rendered
    /\ view.rows = lastSuccess
    /\ Len(view.grid) = Len(lastSuccess.v)
    /\ \A i \in 1..Len(lastSuccess.v) :
         view.grid[i].cells =
           <<lastSuccess.v[i].dataset_name, lastSuccess.v[i].model_pred_task_type,
             lastSuccess.v[i].dataset_gt_task_type, lastSuccess.v[i].min_area,
             lastSuccess.v[i].max_area>>

ShorterListReplacedLonger ==
  /\ act = "fulfil"
  /\ answered >= 2
  /\ lastSuccess.t = "array"
  /\ Len(view.grid) = 2
  /\ lastFor[name] # lastSuccess
  /\ lastFor[name].t = "array"
  /\ Len(lastFor[name].v) = 3

\* C5 as stated: after a fetch fails the held list is empty and the grid
\* has zero rows.
FailureLeavesListEmpty ==
  act = "reject" => (allEvalSettings = EmptyList /\ view.grid = <<>>)

\* C5 as amended: a failed fetch changes nothing (no error state, no retry,
\* the held list and the rendering stay as they were); the list is the
\* initial empty one afterwards when no fetch was fulfilled before.
FailureChangesNothing ==
  /\ [](act = "reject" =>
          /\ issued = 1 + changes
          /\ lastSuccess = NoValue =>
               (allEvalSettings = EmptyList /\ view.rendered /\ view.grid = <<>>)
          /\ lastSuccess # NoValue => allEvalSettings = lastSuccess)
  /\ [][act' = "reject" =>
          /\ allEvalSettings' = allEvalSettings
          /\ view' = view
          /\ issued' = issued
          /\ inflight' \subseteq inflight]_vars

FailureAfterSuccess ==
  /\ act = "reject"
  /\ lastSuccess.t = "array"
  /\ allEvalSettings = lastSuccess
  /\ Len(view.grid) > 0

\* C6: while the backend has answered no request the held list is empty and
\* the grid has no rows, every request issued is still pending (no timeout)
\* and none was issued again (no retry).
PendingForeverStaysEmpty ==
  answered = 0 =>
    /\ allEvalSettings = EmptyList
    /\ mounted => (view.rendered /\ view.grid = <<>>)
    /\ Cardinality(inflight) = issued
    /\ issued = changes + (IF mounted THEN 1 ELSE 0)
    /\ act \in {"init", "mount", "navigate", "rerender"}

AllRequestsPending ==
  /\ answered = 0
  /\ Cardinality(inflight) = 2
  /\ act = "rerender"
  /\ view.rendered

\* C7: only the fulfilment handler writes the held list; a change of the
\* identifier, the issuing of a request, a render and a failed fetch leave
\* it as it was.
OnlyFulfilWritesList ==
  [][/\ allEvalSettings' # allEvalSettings =>
          (act' = "fulfil" /\ allEvalSettings' = lastSuccess')
     /\ act' \in {"mount", "navigate", "rerender", "reject"} =>
          allEvalSettings' = allEvalSettings
     /\ issued' # issued => allEvalSettings' = allEvalSettings]_vars

RowsKeptAcrossIdentifierChange ==
  /\ act = "navigate"
  /\ allEvalSettings.t = "array"
  /\ Len(allEvalSettings.v) > 0
  /\ lastFor[name] = NoValue
  /\ view.heading = name
  /\ Len(view.grid) = Len(allEvalSettings.v)

LinkUsesOwnRowId ==
  (view.rendered /\ allEvalSettings.t = "array") =>
    /\ Len(view.grid) = Len(allEvalSettings.v)
    /\ \A i \in 1..Len(view.grid) :
         /\ view.grid[i].link.text = "view metrics"
         /\ view.grid[i].link.href =
              "evaluation-settings/" \o Decimal(allEvalSettings.v[i].id)
    /\ \A i, j \in 1..Len(view.grid) :
         allEvalSettings.v[i].id # allEvalSettings.v[j].id =>
           view.grid[i].link.href # view.grid[j].link.href

LinksAfterSecondResponse ==
  /\ act = "fulfil"
  /\ answered >= 2
  /\ Len(view.grid) >= 2
  /\ view.grid[1].link.href = "evaluation-settings/2"
  /\ view.grid[2].link.href = "evaluation-settings/3"

\* C10: the body is stored as it is, and the page renders the wrapper and
\* the grid exactly when the held value is truthy: after a fulfilled
\* response with a falsy body it renders nothing until a fulfilled response
\* with a truthy body arrives; with the initial list or an empty array the
\* grid is rendered.
RendersIffTruthy ==
  /\ [](mounted =>
          /\ view.rendered <=> (allEvalSettings.t = "array"
                                  \/ (allEvalSettings.t = "string"
                                        /\ allEvalSettings.v # <<>>))
          /\ act = "fulfil" => allEvalSettings = lastSuccess
          /\ lastSuccess = NoValue => (view.rendered /\ view.grid = <<>>)
          /\ allEvalSettings = EmptyList => (view.rendered /\ view.grid = <<>>))
  /\ [][(mounted /\ ~view.rendered /\ view.rendered') =>
          (act' = "fulfil" /\ lastSuccess'.t = "array")]_vars

NothingRenderedAfterNullBody ==
  /\ act = "rerender"
  /\ lastSuccess = JsNull
  /\ allEvalSettings = JsNull
  /\ view = NullView
  /\ answered >= 2
====
